---- MODULE Spec2Model ----
(***************************************************************************)
(* Model of src/src/ipfs_gateway.py: the IPFSGateway content store.        *)
(*                                                                         *)
(* State: the rows of the sqlite table `objects` (index), the files under  *)
(* STORE_DIR (store) and the wall clock read by datetime.now() (clock).    *)
(* `last` and `pre` record the most recent call (its arguments, its result *)
(* and the state it started from) so that the effect of a call can be      *)
(* stated as a state predicate.                                            *)
(*                                                                         *)
(* Time is counted in ticks of 12 hours, so timedelta(hours=24) is two     *)
(* ticks.  A timestamp is stored the way the code stores it: as the text   *)
(* produced by isoformat() (fixed-width leading digits, then a fraction    *)
(* that is left out when it is zero), compared by sqlite as TEXT           *)
(* (character by character).                                               *)
(*                                                                         *)
(* Spec runs the calls one after the other.  SpecCrash adds a gc that is   *)
(* killed before its commit.  SpecConc runs one gc, one pin/unpin and one  *)
(* add call statement by statement, interleaved, each on its own sqlite   *)
(* connection: a statement sees the committed rows, and a writer waits     *)
(* while gc holds the write lock of its open transaction.                  *)
(***************************************************************************)
EXTENDS Integers, Sequences, FiniteSets, TLC

VARIABLES index, store, clock, last, pre, gcp, pinp, addp

(* gcp, pinp, addp: the position and the locals of a gc, a pin/unpin and an
   add call that run as separate processes on the same store *)
procs == <<gcp, pinp, addp>>

vars == <<index, store, clock, last, pre, gcp, pinp, addp>>

---------------------------------------------------------------------------
(* Bounds of the model *)

StartTime == 17
MaxTime == 21

(* longest list of ids handed to export_car *)
MaxExport == 2

(* timedelta(hours=24), in ticks of 12 hours *)
MaxAge == 2

---------------------------------------------------------------------------
(* Input domains *)

Hi == <<"h", "i">>
EmptyJsonText == <<"{", "}">>

(* byte contents a source file can have *)
Contents == {Hi, EmptyJsonText}

(* dicts handed to add_json *)
JsonDocs == {"empty_dict"}

(* source paths handed to add_file: file name = stem + suffix *)
Paths == {[stem |-> "hello", suffix |-> ".txt"],
          [stem |-> "blob", suffix |-> ""]}

(* names handed to add_json (default "data.json") *)
JsonNames == {[stem |-> "data", suffix |-> ".json"]}

STORE_DIR == "ipfs-store"

---------------------------------------------------------------------------
(* Pure functions *)

CharCode(c) ==
    CASE c = "h" -> 104
      [] c = "i" -> 105
      [] c = "{" -> 123
      [] c = "}" -> 125
      [] c = "x" -> 120

RECURSIVE HashFold(_, _)
HashFold(data, acc) ==
    IF data = <<>> THEN acc
    ELSE HashFold(Tail(data), (acc * 31 + CharCode(Head(data))) % 65536)

(* hashlib.sha256(data): a 16-bit stand-in digest, injective on Contents *)
Sha256(data) == HashFold(data, 0)

(* f"Qm{hexdigest()[:44]}": tag plus the leading digits of the digest *)
ComputeCid(data) == <<"Qm", Sha256(data) \div 256>>

(* json.dumps(data, indent=2).encode('utf-8') *)
JsonDumps(doc) ==
    CASE doc = "empty_dict" -> EmptyJsonText

(* the suffix table of add_file *)
MimeType(path) ==
    IF path.suffix = ".json" THEN "application/json"
    ELSE IF path.suffix = ".txt" THEN "text/plain"
    ELSE IF path.suffix = ".md" THEN "text/markdown"
    ELSE "application/octet-stream"

(* STORE_DIR / cid *)
LocalPath(cid) == [dir |-> STORE_DIR, file |-> cid]

(* datetime.isoformat(): the whole days in two decimal digits, then the
   fraction of the day; like the microseconds of isoformat(), the fraction
   is left out when it is zero *)
IsoFormat(t) ==
    LET days == t \div 2
        whole == <<days \div 10, days % 10>>
    IN  IF t % 2 = 0 THEN whole ELSE Append(whole, 5)

(* text of isoformat() back to a tick count *)
ParseIso(text) ==
    (text[1] * 10 + text[2]) * 2 + (IF Len(text) = 3 THEN 1 ELSE 0)

(* sqlite TEXT comparison a < b: character by character, a proper prefix
   is smaller *)
RECURSIVE TextLess(_, _)
TextLess(a, b) ==
    IF b = <<>> THEN FALSE
    ELSE IF a = <<>> THEN TRUE
    ELSE IF Head(a) # Head(b) THEN Head(a) < Head(b)
    ELSE TextLess(Tail(a), Tail(b))

(* (datetime.now() - timedelta(hours=24)).isoformat() *)
CutoffTime(now) == IsoFormat(now - MaxAge)

AllCids == {ComputeCid(d) : d \in Contents}
AllLocations == {LocalPath(c) : c \in AllCids}

(* an id that no content of the model hashes to *)
UnknownCid == <<"Qm", 0>>

(* ids a caller may ask about *)
QueryCids == AllCids \cup {UnknownCid}

---------------------------------------------------------------------------
(* The metadata index: table `objects`, cid PRIMARY KEY, local_path UNIQUE *)

ContentObject(cid, name, size, mime, pinned, uploaded, path) ==
    [cid |-> cid, name |-> name, size_bytes |-> size, mime_type |-> mime,
     pinned |-> pinned, uploaded_at |-> uploaded, local_path |-> path]

(* variant: a plain INSERT that keeps the conflicting rows *)
StoreMetadata_PlainInsert(idx, obj) == idx \cup {obj}

(* variant: INSERT OR IGNORE, which keeps the existing row on a conflict *)
StoreMetadata_InsertOrIgnore(idx, obj) ==
    IF \E r \in idx : r.cid = obj.cid \/ r.local_path = obj.local_path
    THEN idx ELSE idx \cup {obj}

(* INSERT OR REPLACE: rows that conflict on a unique column are deleted *)
StoreMetadata(idx, obj) ==
    {r \in idx : r.cid # obj.cid /\ r.local_path # obj.local_path} \cup {obj}

(* SELECT * FROM objects WHERE cid = ? *)
Get(idx, cid) == {r \in idx : r.cid = cid}

(* get(): cursor.fetchone() as an Optional, {} for None *)
GetOne(idx, cid) ==
    IF Get(idx, cid) = {} THEN {} ELSE {CHOOSE r \in Get(idx, cid) : TRUE}

(* variant: the UPDATE without its WHERE clause *)
SetPinned_NoWhere(idx, cid, flag) ==
    {[r EXCEPT !.pinned = flag] : r \in idx}

(* variant: the UPDATE also stamps the row with the current time *)
SetPinned_Touch(idx, cid, flag) ==
    {IF r.cid = cid
        THEN [r EXCEPT !.pinned = flag, !.uploaded_at = IsoFormat(clock)]
        ELSE r : r \in idx}

(* UPDATE objects SET pinned = ? WHERE cid = ? *)
SetPinned(idx, cid, flag) ==
    {IF r.cid = cid THEN [r EXCEPT !.pinned = flag] ELSE r : r \in idx}

(* variant: the query without "pinned = 0" *)
SelectEligible_IgnorePin(idx, cutoff) ==
    {<<r.cid, r.local_path>> :
        r \in {x \in idx : TextLess(x.uploaded_at, cutoff)}}

(* variant: the query with "uploaded_at <= ?" *)
SelectEligible_Inclusive(idx, cutoff) ==
    {<<r.cid, r.local_path>> :
        r \in {x \in idx : ~x.pinned /\ ~TextLess(cutoff, x.uploaded_at)}}

(* SELECT cid, local_path FROM objects WHERE pinned = 0 AND uploaded_at < ? *)
SelectEligible(idx, cutoff) ==
    {<<r.cid, r.local_path>> :
        r \in {x \in idx : ~x.pinned /\ TextLess(x.uploaded_at, cutoff)}}

(* DELETE FROM objects WHERE cid = ? *)
DeleteRow(idx, cid) == {r \in idx : r.cid # cid}

---------------------------------------------------------------------------
(* Read-only projections *)

(* variant: an unknown id yields a summary of default values *)
StatResult_Default(idx, cid) ==
    IF GetOne(idx, cid) = {}
    THEN {[cid |-> cid, name |-> "", size_bytes |-> 0, mime_type |-> "",
           pinned |-> FALSE, uploaded_at |-> <<>>]}
    ELSE {[cid |-> cid, name |-> obj.name, size_bytes |-> obj.size_bytes,
           mime_type |-> obj.mime_type, pinned |-> obj.pinned,
           uploaded_at |-> obj.uploaded_at] : obj \in GetOne(idx, cid)}

(* stat(): the summary dict as an Optional, {} for None *)
StatResult(idx, cid) ==
    {[cid |-> cid, name |-> obj.name, size_bytes |-> obj.size_bytes,
      mime_type |-> obj.mime_type, pinned |-> obj.pinned,
      uploaded_at |-> obj.uploaded_at] : obj \in GetOne(idx, cid)}

(* dataclasses.asdict(obj) *)
AsDict(obj) ==
    [cid |-> obj.cid, name |-> obj.name, size_bytes |-> obj.size_bytes,
     mime_type |-> obj.mime_type, pinned |-> obj.pinned,
     uploaded_at |-> obj.uploaded_at, local_path |-> obj.local_path]

(* variant: the loop ends at the first id that is not found *)
RECURSIVE ExportObjects_StopAtUnknown(_, _)
ExportObjects_StopAtUnknown(cids, idx) ==
    IF cids = <<>> THEN <<>>
    ELSE IF GetOne(idx, Head(cids)) = {} THEN <<>>
    ELSE <<AsDict(CHOOSE obj \in GetOne(idx, Head(cids)) : TRUE)>>
             \o ExportObjects_StopAtUnknown(Tail(cids), idx)

(* export_car(): the list built by the loop over cids *)
RECURSIVE ExportObjects(_, _)
ExportObjects(cids, idx) ==
    IF cids = <<>> THEN <<>>
    ELSE IF GetOne(idx, Head(cids)) = {}
    THEN ExportObjects(Tail(cids), idx)
    ELSE <<AsDict(CHOOSE obj \in GetOne(idx, Head(cids)) : TRUE)>>
             \o ExportObjects(Tail(cids), idx)

(* the structure export_car dumps to output_path *)
ExportBundle(cids, idx) == [version |-> 1, objects |-> ExportObjects(cids, idx)]

---------------------------------------------------------------------------
(* The blob store: files under STORE_DIR, as a function path -> bytes *)

WriteBlob(st, path, data) ==
    [p \in DOMAIN st \cup {path} |-> IF p = path THEN data ELSE st[p]]

RemoveBlob(st, path) == [p \in DOMAIN st \ {path} |-> st[p]]

(* Path(local_path).unlink() raises: the file is absent, or the file
   system refuses (path in ioFail) *)
UnlinkRaises(st, path, ioFail) == path \notin DOMAIN st \/ path \in ioFail

---------------------------------------------------------------------------
(* gc: the loop over the fetched rows *)

(* variant: the row is deleted before the blob is unlinked *)
RECURSIVE GcLoop_DeleteRowFirst(_, _, _, _)
GcLoop_DeleteRowFirst(rows, idx, st, ioFail) ==
    IF rows = <<>> THEN [index |-> idx, store |-> st]
    ELSE LET cid == Head(rows)[1]
             local_path == Head(rows)[2]
         IN  IF UnlinkRaises(st, local_path, ioFail)
             THEN GcLoop_DeleteRowFirst(Tail(rows), DeleteRow(idx, cid), st,
                                        ioFail)
             ELSE GcLoop_DeleteRowFirst(Tail(rows), DeleteRow(idx, cid),
                                        RemoveBlob(st, local_path), ioFail)

(* variant: the try/except encloses the whole loop, so the first exception
   ends the sweep *)
RECURSIVE GcLoop_AbortOnError(_, _, _, _)
GcLoop_AbortOnError(rows, idx, st, ioFail) ==
    IF rows = <<>> THEN [index |-> idx, store |-> st]
    ELSE LET cid == Head(rows)[1]
             local_path == Head(rows)[2]
         IN  IF UnlinkRaises(st, local_path, ioFail)
             THEN [index |-> idx, store |-> st]
             ELSE GcLoop_AbortOnError(Tail(rows), DeleteRow(idx, cid),
                                      RemoveBlob(st, local_path), ioFail)

(* one iteration per fetched row: unlink the blob, then delete the row;
   an exception in either skips to the next row *)
RECURSIVE GcLoop(_, _, _, _)
GcLoop(rows, idx, st, ioFail) ==
    IF rows = <<>> THEN [index |-> idx, store |-> st]
    ELSE LET cid == Head(rows)[1]
             local_path == Head(rows)[2]
         IN  IF UnlinkRaises(st, local_path, ioFail)
             THEN GcLoop(Tail(rows), idx, st, ioFail)
             ELSE GcLoop(Tail(rows), DeleteRow(idx, cid),
                         RemoveBlob(st, local_path), ioFail)

(* value returned by gc *)
GcReturn(rows, swept) == Len(rows)

(* cursor.fetchall(): the selected rows in an order the engine chooses *)
FetchAll(S) ==
    {f \in [1..Cardinality(S) -> S] :
        \A i, j \in 1..Cardinality(S) : i # j => f[i] # f[j]}

(* the first k rows of a fetched sequence *)
Prefix(rows, k) == [i \in 1..k |-> rows[i]]

---------------------------------------------------------------------------
(* Call records *)

NoCid == <<>>
EmptyStore == [p \in {} |-> <<>>]

(* the record of a call; reclaimed (history) is the set of ids whose
   record a gc deleted and that were not added again since *)
Call(op, cid, ok, ret, data) ==
    [op |-> op, cid |-> cid, ok |-> ok, ret |-> ret, data |-> data,
     now |-> clock, cutoff |-> <<>>, rows |-> <<>>, ioFail |-> {},
     reclaimed |-> IF ok /\ data # <<>> THEN last.reclaimed \ {cid}
                   ELSE last.reclaimed]

NoCall ==
    [op |-> "init", cid |-> NoCid, ok |-> TRUE, ret |-> 0, data |-> <<>>,
     now |-> StartTime, cutoff |-> <<>>, rows |-> <<>>, ioFail |-> {},
     reclaimed |-> {}]

Snapshot == [index |-> index, store |-> store]

(* processes that are not inside a call.  History fields of gcp: eligible
   is the set of ids that were unpinned and older than the cutoff when gc
   selected, touched the ids whose blob it unlinked, hitPinned the ids whose
   record was pinned when gc unlinked their blob, removed the ids whose
   record its commit deleted *)
GcIdle ==
    [pc |-> "idle", rows |-> <<>>, i |-> 1, unlinked |-> FALSE, work |-> {},
     cutoff |-> <<>>, ret |-> 0, eligible |-> {}, touched |-> {},
     hitPinned |-> {}, removed |-> {}]

PinIdle ==
    [pc |-> "idle", cid |-> NoCid, flag |-> FALSE, ok |-> TRUE, ret |-> FALSE,
     hit |-> FALSE]

AddIdle ==
    [pc |-> "idle", op |-> "", name |-> "", data |-> <<>>, cid |-> NoCid,
     obj |-> {}, ok |-> TRUE]

---------------------------------------------------------------------------
(* Operations *)

Init ==
    /\ index = {}
    /\ store = EmptyStore
    /\ clock = StartTime
    /\ last = NoCall
    /\ pre = [index |-> {}, store |-> EmptyStore]
    /\ gcp = GcIdle
    /\ pinp = PinIdle
    /\ addp = AddIdle

(* variant: the destination is created before the source is looked at *)
AddFile_LateCheck(path, exists, data) ==
    LET cid == ComputeCid(data)
        local_path == LocalPath(cid)
        obj == ContentObject(cid, path, Len(data), MimeType(path), FALSE,
                             IsoFormat(clock), local_path)
    IN  IF ~exists
        THEN /\ store' = WriteBlob(store, local_path, <<>>)
             /\ last' = Call("add_file", NoCid, FALSE, "FileNotFoundError", <<>>)
             /\ pre' = Snapshot
             /\ UNCHANGED <<index, clock, gcp, pinp, addp>>
        ELSE /\ store' = WriteBlob(store, local_path, data)
             /\ index' = StoreMetadata(index, obj)
             /\ last' = Call("add_file", cid, TRUE, obj, data)
             /\ pre' = Snapshot
             /\ UNCHANGED <<clock, gcp, pinp, addp>>

(* add_file: exists says whether the path exists, data is what it holds *)
AddFile(path, exists, data) ==
    LET cid == ComputeCid(data)
        local_path == LocalPath(cid)
        obj == ContentObject(cid, path, Len(data), MimeType(path), FALSE,
                             IsoFormat(clock), local_path)
    IN  IF ~exists
        THEN /\ last' = Call("add_file", NoCid, FALSE, "FileNotFoundError", <<>>)
             /\ pre' = Snapshot
             /\ UNCHANGED <<index, store, clock, gcp, pinp, addp>>
        ELSE /\ store' = WriteBlob(store, local_path, data)
             /\ index' = StoreMetadata(index, obj)
             /\ last' = Call("add_file", cid, TRUE, obj, data)
             /\ pre' = Snapshot
             /\ UNCHANGED <<clock, gcp, pinp, addp>>

AddJson(doc, name) ==
    LET json_bytes == JsonDumps(doc)
        cid == ComputeCid(json_bytes)
        local_path == LocalPath(cid)
        obj == ContentObject(cid, name, Len(json_bytes), "application/json",
                             FALSE, IsoFormat(clock), local_path)
    IN  /\ store' = WriteBlob(store, local_path, JsonDumps(doc))
        /\ index' = StoreMetadata(index, obj)
        /\ last' = Call("add_json", cid, TRUE, obj, json_bytes)
        /\ pre' = Snapshot
        /\ UNCHANGED <<clock, gcp, pinp, addp>>

PinResult(idx, cid) == Get(idx, cid) # {}

PinIndex(idx, cid) ==
    IF Get(idx, cid) = {} THEN idx ELSE SetPinned(idx, cid, TRUE)

UnpinIndex(idx, cid) ==
    IF Get(idx, cid) = {} THEN idx ELSE SetPinned(idx, cid, FALSE)

Pin(cid) ==
    /\ index' = PinIndex(index, cid)
    /\ last' = Call("pin", cid, TRUE, PinResult(index, cid), <<>>)
    /\ pre' = Snapshot
    /\ UNCHANGED <<store, clock, gcp, pinp, addp>>

Unpin(cid) ==
    /\ index' = UnpinIndex(index, cid)
    /\ last' = Call("unpin", cid, TRUE, PinResult(index, cid), <<>>)
    /\ pre' = Snapshot
    /\ UNCHANGED <<store, clock, gcp, pinp, addp>>

(* stat(cid) *)
Stat(cid) ==
    /\ last' = Call("stat", cid, TRUE, StatResult(index, cid), <<>>)
    /\ pre' = Snapshot
    /\ UNCHANGED <<index, store, clock, gcp, pinp, addp>>

(* export_car(cids, output_path), output_path outside STORE_DIR; the
   dumped structure is kept as the result of the call *)
ExportCar(cids) ==
    /\ last' = [Call("export_car", NoCid, TRUE, ExportBundle(cids, index), <<>>)
                  EXCEPT !.rows = cids]
    /\ pre' = Snapshot
    /\ UNCHANGED <<index, store, clock, gcp, pinp, addp>>

(* gc: rows is the fetch order, ioFail the blobs the file system refuses
   to unlink during this sweep *)
Gc(rows, ioFail) ==
    LET cutoff_time == CutoffTime(clock)
        swept == GcLoop(rows, index, store, ioFail)
    IN  /\ rows \in FetchAll(SelectEligible(index, cutoff_time))
        /\ index' = swept.index
        /\ store' = swept.store
        /\ last' = [Call("gc", NoCid, TRUE, GcReturn(rows, swept), <<>>)
                      EXCEPT !.cutoff = cutoff_time, !.rows = rows,
                             !.ioFail = ioFail,
                             !.reclaimed = last.reclaimed \cup
                                 {r.cid : r \in index \ swept.index}]
        /\ pre' = Snapshot
        /\ UNCHANGED <<clock, gcp, pinp, addp>>

(* variant: each DELETE is committed at once and comes before the unlink of
   its blob; the kill falls between the k-th DELETE and its unlink *)
GcCrash_RowFirstCommitted(rows, ioFail, k) ==
    LET cutoff_time == CutoffTime(clock)
        swept == GcLoop(Prefix(rows, k), index, store, ioFail)
        before == GcLoop(Prefix(rows, k - 1), index, store, ioFail)
    IN  /\ rows \in FetchAll(SelectEligible(index, cutoff_time))
        /\ k \in 1..Len(rows)
        /\ index' = swept.index
        /\ store' = before.store
        /\ last' = [Call("gc_crash", NoCid, FALSE, "killed", <<>>)
                      EXCEPT !.cutoff = cutoff_time, !.rows = rows,
                             !.ioFail = ioFail]
        /\ pre' = Snapshot
        /\ UNCHANGED <<clock, gcp, pinp, addp>>

(* gc killed after k iterations of its loop, before conn.commit(): the
   unlinked blobs are gone, the uncommitted DELETEs are rolled back *)
GcCrash(rows, ioFail, k) ==
    LET cutoff_time == CutoffTime(clock)
        swept == GcLoop(Prefix(rows, k), index, store, ioFail)
    IN  /\ rows \in FetchAll(SelectEligible(index, cutoff_time))
        /\ k \in 1..Len(rows)
        /\ store' = swept.store
        /\ last' = [Call("gc_crash", NoCid, FALSE, "killed", <<>>)
                      EXCEPT !.cutoff = cutoff_time, !.rows = rows,
                             !.ioFail = ioFail]
        /\ pre' = Snapshot
        /\ UNCHANGED <<index, clock, gcp, pinp, addp>>

(* the wall clock advances *)
Tick ==
    /\ clock < MaxTime
    /\ clock' = clock + 1
    /\ UNCHANGED <<index, store, last, pre, gcp, pinp, addp>>

RowSeqs == UNION {FetchAll(S) : S \in SUBSET {<<c, LocalPath(c)>> : c \in AllCids}}

DoAddFile ==
    \E path \in Paths, exists \in BOOLEAN, data \in Contents :
        AddFile(path, exists, data)
DoAddJson == \E doc \in JsonDocs, name \in JsonNames : AddJson(doc, name)
DoPin == \E cid \in AllCids : Pin(cid)
DoUnpin == \E cid \in AllCids : Unpin(cid)
DoStat == \E cid \in QueryCids : Stat(cid)
DoExportCar ==
    \E n \in 0..MaxExport : \E cids \in [1..n -> QueryCids] : ExportCar(cids)
DoGc == \E rows \in RowSeqs, ioFail \in SUBSET AllLocations : Gc(rows, ioFail)
DoGcCrash ==
    \E rows \in RowSeqs, ioFail \in SUBSET AllLocations, k \in 1..Cardinality(AllCids) :
        GcCrash(rows, ioFail, k)

Next ==
    \/ DoAddFile
    \/ DoAddJson
    \/ DoPin
    \/ DoUnpin
    \/ DoGc
    \/ DoStat
    \/ DoExportCar
    \/ Tick

Spec == Init /\ [][Next]_vars

(* the same calls, where a gc may also be killed mid-sweep *)
NextCrash == Next \/ DoGcCrash

SpecCrash == Init /\ [][NextCrash]_vars

---------------------------------------------------------------------------
(* The same calls, statement by statement *)

(* source path used by the interleaved add_file, and what it holds when
   add_file reads it *)
ConcPaths == {[stem |-> "hello", suffix |-> ".txt"]}
ConcContents == {Hi}

(* the interleaved calls run while the clock is at most ConcMaxTime *)
ConcMaxTime == MaxTime - 1

ConcTick ==
    /\ clock < ConcMaxTime
    /\ Tick

(* gc has executed a DELETE and not yet committed: its connection holds
   the write lock of the database *)
GcHoldsLock == gcp.pc = "sweep" /\ gcp.work # {}

(* gc, lines 177-182: compute the cutoff and fetch the eligible rows *)
GcSelect(rows) ==
    /\ gcp.pc \in {"idle", "done"}
    /\ rows \in FetchAll(SelectEligible(index, CutoffTime(clock)))
    /\ gcp' = [GcIdle EXCEPT
                  !.pc = "sweep", !.rows = rows, !.cutoff = CutoffTime(clock),
                  !.eligible =
                      {r.cid : r \in {x \in index :
                          ~x.pinned /\ ParseIso(x.uploaded_at) < clock - MaxAge}}]
    /\ UNCHANGED <<index, store, clock, last, pre, pinp, addp>>

(* gc, line 186: unlink the blob of row i; an exception skips the row *)
GcUnlink ==
    /\ gcp.pc = "sweep"
    /\ gcp.i <= Len(gcp.rows)
    /\ ~gcp.unlinked
    /\ LET cid == gcp.rows[gcp.i][1]
           local_path == gcp.rows[gcp.i][2]
       IN  IF UnlinkRaises(store, local_path, {})
           THEN /\ gcp' = [gcp EXCEPT !.i = @ + 1]
                /\ UNCHANGED store
           ELSE /\ store' = RemoveBlob(store, local_path)
                /\ gcp' = [gcp EXCEPT
                              !.unlinked = TRUE,
                              !.touched = @ \cup {cid},
                              !.hitPinned = @ \cup
                                  {r.cid : r \in {x \in Get(index, cid) : x.pinned}}]
    /\ UNCHANGED <<index, clock, last, pre, pinp, addp>>

(* gc, line 187: DELETE the row of the blob just unlinked, inside the
   transaction that conn.commit() ends *)
GcDelete ==
    /\ gcp.pc = "sweep"
    /\ gcp.unlinked
    /\ gcp' = [gcp EXCEPT !.work = @ \cup {gcp.rows[gcp.i][1]},
                          !.i = @ + 1, !.unlinked = FALSE]
    /\ UNCHANGED <<index, store, clock, last, pre, pinp, addp>>

(* gc, lines 191-193: commit the DELETEs and return *)
GcCommit ==
    /\ gcp.pc = "sweep"
    /\ gcp.i > Len(gcp.rows)
    /\ index' = {r \in index : r.cid \notin gcp.work}
    /\ gcp' = [gcp EXCEPT !.pc = "done", !.work = {},
                          !.ret = GcReturn(gcp.rows, index'),
                          !.removed = {r.cid : r \in index \ index'}]
    /\ UNCHANGED <<store, clock, last, pre, pinp, addp>>

(* pin/unpin, lines 148-150: the existence check; flag is TRUE for pin *)
PinGet(cid, flag) ==
    /\ pinp.pc \in {"idle", "done"}
    /\ pinp' = IF GetOne(index, cid) = {}
               THEN [PinIdle EXCEPT !.pc = "done", !.cid = cid, !.flag = flag,
                                    !.ret = FALSE]
               ELSE [PinIdle EXCEPT !.pc = "found", !.cid = cid, !.flag = flag]
    /\ UNCHANGED <<index, store, clock, last, pre, gcp, addp>>

(* pin/unpin, lines 152-157: the UPDATE and its commit; hit (history) says
   whether the UPDATE matched a row *)
PinUpdate ==
    /\ pinp.pc = "found"
    /\ ~GcHoldsLock
    /\ index' = SetPinned(index, pinp.cid, pinp.flag)
    /\ pinp' = [pinp EXCEPT !.pc = "done", !.ret = TRUE,
                            !.hit = (Get(index, pinp.cid) # {})]
    /\ UNCHANGED <<store, clock, last, pre, gcp, addp>>

(* pin/unpin: the UPDATE gives up waiting for the lock and raises
   sqlite3.OperationalError *)
PinLocked ==
    /\ pinp.pc = "found"
    /\ GcHoldsLock
    /\ pinp' = [pinp EXCEPT !.pc = "done", !.ok = FALSE]
    /\ UNCHANGED <<index, store, clock, last, pre, gcp, addp>>

(* add_file, lines 69-85: read the source file and compute the cid *)
AddFileRead(path, data) ==
    /\ addp.pc \in {"idle", "done"}
    /\ addp' = [AddIdle EXCEPT !.pc = "read", !.op = "add_file",
                               !.name = path, !.data = data,
                               !.cid = ComputeCid(data)]
    /\ UNCHANGED <<index, store, clock, last, pre, gcp, pinp>>

(* add_json, lines 108-110: serialize and compute the cid *)
AddJsonDumps(doc, name) ==
    /\ addp.pc \in {"idle", "done"}
    /\ addp' = [AddIdle EXCEPT !.pc = "read", !.op = "add_json",
                               !.name = name, !.data = JsonDumps(doc),
                               !.cid = ComputeCid(JsonDumps(doc))]
    /\ UNCHANGED <<index, store, clock, last, pre, gcp, pinp>>

(* lines 89 / 113: the destination is opened for writing, which creates
   it or truncates it *)
AddOpen ==
    /\ addp.pc = "read"
    /\ store' = WriteBlob(store, LocalPath(addp.cid), <<>>)
    /\ addp' = [addp EXCEPT !.pc = "open"]
    /\ UNCHANGED <<index, clock, last, pre, gcp, pinp>>

(* lines 89-100 / 114-124: the bytes are written and the object is built.
   copy2 reads the source file again: copied is what the file holds then;
   json.dump writes the serialized text *)
AddWrite(copied) ==
    /\ addp.pc = "open"
    /\ addp.op = "add_json" => copied = addp.data
    /\ store' = WriteBlob(store, LocalPath(addp.cid), copied)
    /\ addp' = [addp EXCEPT
                   !.pc = "written",
                   !.obj = {ContentObject(addp.cid, addp.name, Len(addp.data),
                                IF addp.op = "add_json" THEN "application/json"
                                ELSE MimeType(addp.name),
                                FALSE, IsoFormat(clock), LocalPath(addp.cid))}]
    /\ UNCHANGED <<index, clock, last, pre, gcp, pinp>>

(* lines 103 / 126: _store_metadata, INSERT OR REPLACE and commit *)
AddStore ==
    /\ addp.pc = "written"
    /\ ~GcHoldsLock
    /\ index' = StoreMetadata(index, CHOOSE obj \in addp.obj : TRUE)
    /\ addp' = [addp EXCEPT !.pc = "done"]
    /\ UNCHANGED <<store, clock, last, pre, gcp, pinp>>

(* _store_metadata gives up waiting for the lock and raises
   sqlite3.OperationalError *)
AddLocked ==
    /\ addp.pc = "written"
    /\ GcHoldsLock
    /\ addp' = [addp EXCEPT !.pc = "done", !.ok = FALSE]
    /\ UNCHANGED <<index, store, clock, last, pre, gcp, pinp>>

DoGcSelect == \E rows \in RowSeqs : GcSelect(rows)
DoPinGet == \E cid \in AllCids, flag \in BOOLEAN : PinGet(cid, flag)
DoAddFileRead ==
    \E path \in ConcPaths, data \in ConcContents : AddFileRead(path, data)
DoAddJsonDumps == \E doc \in JsonDocs, name \in JsonNames : AddJsonDumps(doc, name)
DoAddWrite == \E copied \in Contents : AddWrite(copied)

NextConc ==
    \/ DoGcSelect
    \/ GcUnlink
    \/ GcDelete
    \/ GcCommit
    \/ DoPinGet
    \/ PinUpdate
    \/ PinLocked
    \/ DoAddFileRead
    \/ DoAddJsonDumps
    \/ AddOpen
    \/ DoAddWrite
    \/ AddStore
    \/ AddLocked
    \/ ConcTick

SpecConc == Init /\ [][NextConc]_vars

---------------------------------------------------------------------------
(* Properties *)

Adds == {"add_file", "add_json"}

(* the rows a gc fetched, as a set of indices *)
Fetched == 1..Len(last.rows)

(* C1: pin immunity.  A gc call removes neither the index record nor the
   blob of a record that is pinned when gc is called, however old it is. *)
C1_PinImmunity ==
    last.op = "gc" =>
        \A r \in pre.index :
            r.pinned =>
                /\ r \in index
                /\ r.local_path \in DOMAIN pre.store =>
                       /\ r.local_path \in DOMAIN store
                       /\ store[r.local_path] = pre.store[r.local_path]

(* a gc that reclaimed another record ran over a pinned record older than
   the cutoff *)
C1_Witness ==
    /\ last.op = "gc"
    /\ Cardinality(index) < Cardinality(pre.index)
    /\ \E r \in pre.index :
           r.pinned /\ ParseIso(r.uploaded_at) < last.now - MaxAge

(* C2: referential integrity.  After any sequence of completed calls, a
   record is in the index if and only if the blob at its storage location
   is in the store. *)
C2_ReferentialIntegrity ==
    /\ \A r \in index : r.local_path \in DOMAIN store
    /\ \A p \in DOMAIN store : \E r \in index : r.local_path = p

(* a gc in which one blob deletion failed and another succeeded, with a
   record left in the index *)
C2_Witness ==
    /\ last.op = "gc"
    /\ \E i \in Fetched : last.rows[i][2] \in last.ioFail
    /\ Cardinality(index) < Cardinality(pre.index)
    /\ index # {}

(* C3: gc reclaims every eligible record, also one whose blob is already
   missing from the store: after gc no fetched record remains in the index,
   unless the file system refused to unlink its blob. *)
C3_GcReclaimsEligible ==
    last.op = "gc" =>
        \A i \in Fetched :
            last.rows[i][2] \notin last.ioFail =>
                Get(index, last.rows[i][1]) = {}

(* C4: the value returned by gc is the number of records whose index row
   was deleted in that sweep. *)
C4_GcReturnsReclaimedCount ==
    last.op = "gc" =>
        last.ret = Cardinality(pre.index) - Cardinality(index)

(* C5: a failure to delete one blob does not abort the sweep.  gc returns
   normally, and every fetched record whose blob deletion succeeds loses
   both its blob and its index record, wherever the failing record is in
   the fetch order. *)
C5_FailureDoesNotAbortSweep ==
    last.op = "gc" =>
        /\ last.ok
        /\ \A i \in Fetched :
               (/\ last.rows[i][2] \notin last.ioFail
                /\ last.rows[i][2] \in DOMAIN pre.store) =>
                   /\ Get(index, last.rows[i][1]) = {}
                   /\ last.rows[i][2] \notin DOMAIN store

(* the first fetched record failed and a later one was reclaimed *)
C5_Witness ==
    /\ last.op = "gc"
    /\ Len(last.rows) >= 2
    /\ last.rows[1][2] \in last.ioFail
    /\ last.rows[2][2] \notin last.ioFail
    /\ Get(index, last.rows[2][1]) = {}
    /\ Get(index, last.rows[1][1]) # {}

(* C6: age threshold.  With cutoff = now - MaxAge, a gc whose blob
   deletions succeed removes an unpinned record exactly when its upload time
   is before the cutoff; a record uploaded at or after the cutoff keeps its
   index record, with every field unchanged, and its blob. *)
C6_AgeThreshold ==
    last.op = "gc" =>
        \A r \in pre.index :
            LET old == ParseIso(r.uploaded_at) < last.now - MaxAge
            IN  /\ (old /\ ~r.pinned /\ r.local_path \notin last.ioFail) =>
                       /\ Get(index, r.cid) = {}
                       /\ r.local_path \notin DOMAIN store
                /\ ~old =>
                       /\ r \in index
                       /\ r.local_path \in DOMAIN store
                       /\ store[r.local_path] = pre.store[r.local_path]

(* one gc met a record uploaded one tick before the cutoff, which it
   removed, and an unpinned record uploaded at the cutoff, which it left *)
C6_Witness ==
    /\ last.op = "gc"
    /\ \E r \in pre.index :
           /\ ~r.pinned
           /\ ParseIso(r.uploaded_at) = last.now - MaxAge - 1
           /\ Get(index, r.cid) = {}
    /\ \E r \in pre.index :
           /\ ~r.pinned
           /\ ParseIso(r.uploaded_at) = last.now - MaxAge
           /\ r \in index

(* C7: dedup idempotence.  Adding bytes that a record of the index already
   holds yields the id of that record and leaves one index record and one
   blob for the content; the numbers of records and of blobs do not
   change. *)
C7_DedupIdempotence ==
    (last.op \in Adds /\ last.ok) =>
        \A r \in pre.index :
            (/\ r.local_path \in DOMAIN pre.store
             /\ pre.store[r.local_path] = last.data) =>
                /\ last.ret.cid = r.cid
                /\ Cardinality(Get(index, r.cid)) = 1
                /\ Cardinality({p \in DOMAIN store : store[p] = last.data}) = 1
                /\ Cardinality(index) = Cardinality(pre.index)
                /\ DOMAIN store = DOMAIN pre.store

(* add_json of bytes that add_file stored earlier under another name, at
   another time *)
C7_Witness ==
    /\ last.op = "add_json"
    /\ \E r \in pre.index :
           /\ pre.store[r.local_path] = last.data
           /\ r.name # last.ret.name
           /\ r.uploaded_at # last.ret.uploaded_at

(* C8: re-adding content whose id is in the index leaves the id, size,
   storage location and pinned flag of the existing record unchanged. *)
C8_ReAddKeepsPinned ==
    (last.op \in Adds /\ last.ok) =>
        \A r \in Get(pre.index, last.cid) :
            \E r2 \in Get(index, last.cid) :
                /\ r2.size_bytes = r.size_bytes
                /\ r2.local_path = r.local_path
                /\ r2.pinned = r.pinned

(* C9 as stated: while a record stays in the index its uploaded_at keeps
   the value it was created with, so no call changes it. *)
C9_UploadedAtNeverMutated ==
    \A r \in pre.index :
        \A r2 \in Get(index, r.cid) : r2.uploaded_at = r.uploaded_at

(* C9 amended: pin, unpin and gc leave the uploaded_at of a record that
   stays in the index unchanged; an add of the same content replaces it by
   the time of that add. *)
C9_UploadedAtSetOnlyByAdd ==
    \A r \in pre.index :
        \A r2 \in Get(index, r.cid) :
            IF last.op \in Adds /\ last.ok /\ last.cid = r.cid
            THEN r2.uploaded_at = IsoFormat(last.now)
            ELSE r2.uploaded_at = r.uploaded_at

(* a re-add at a later time than the first add, next to a pinned record
   that was uploaded earlier than that re-add *)
C9_Witness ==
    /\ last.op \in Adds
    /\ last.ok
    /\ \E r \in Get(pre.index, last.cid) :
           ParseIso(r.uploaded_at) < last.now
    /\ \E r \in index :
           r.cid # last.cid /\ r.pinned /\ ParseIso(r.uploaded_at) < last.now

(* C10: pin and unpin return true exactly when the id is in the index; on
   true only the pinned flag of that record changes, on false nothing
   changes; the store is never touched; repeating the call changes neither
   the state nor the result. *)
C10_PinUnpinFrame ==
    last.op \in {"pin", "unpin"} =>
        LET flag == (last.op = "pin")
            known == \E r \in pre.index : r.cid = last.cid
            again == IF flag THEN PinIndex(index, last.cid)
                     ELSE UnpinIndex(index, last.cid)
        IN  /\ last.ret = known
            /\ store = pre.store
            /\ \A r \in pre.index :
                   IF r.cid = last.cid
                   THEN [r EXCEPT !.pinned = flag] \in index
                   ELSE r \in index
            /\ Cardinality(index) = Cardinality(pre.index)
            /\ ~known => index = pre.index
            /\ again = index
            /\ PinResult(index, last.cid) = last.ret

(* an unpin that cleared the flag of a pinned record while another record
   was in the index *)
C10_Witness ==
    /\ last.op = "unpin"
    /\ last.ret = TRUE
    /\ \E r \in pre.index : r.cid = last.cid /\ r.pinned
    /\ \E r \in pre.index : r.cid # last.cid /\ r.pinned

(* C11: after a successful add of bytes b the index holds, under
   id = digest(b), a record with size_bytes = length of b, pinned = false
   and the canonical storage location; the blob at that location exists;
   get(id) returns exactly the record the add returned. *)
C11_AddCreatesRecord ==
    (last.op \in Adds /\ last.ok) =>
        LET id == ComputeCid(last.data)
        IN  /\ Get(index, id) = {last.ret}
            /\ last.ret.cid = id
            /\ last.ret.size_bytes = Len(last.data)
            /\ last.ret.pinned = FALSE
            /\ last.ret.local_path = LocalPath(id)
            /\ LocalPath(id) \in DOMAIN store

(* an add of content that was already in the index under another name *)
C11_Witness ==
    /\ last.op = "add_file"
    /\ last.ok
    /\ \E r \in Get(pre.index, last.cid) : r.name # last.ret.name
    /\ Get(index, last.cid) = {last.ret}

(* C12: add_file on a path that does not exist fails with the
   input-not-found error and leaves every index record and every blob as
   they were. *)
C12_MissingPathNoMutation ==
    (last.op = "add_file" /\ ~last.ok) =>
        /\ last.ret = "FileNotFoundError"
        /\ index = pre.index
        /\ store = pre.store

(* a failed add_file on a store that holds a record and its blob *)
C12_Witness ==
    /\ last.op = "add_file"
    /\ ~last.ok
    /\ index # {}
    /\ DOMAIN store # {}

(* positions of an exported list whose id has a record in the index *)
FoundAt(cids, idx) == {i \in 1..Len(cids) : Get(idx, cids[i]) # {}}

(* the k-th of those positions, in list order *)
KthFound(cids, idx, k) ==
    CHOOSE i \in FoundAt(cids, idx) :
        Cardinality({j \in FoundAt(cids, idx) : j <= i}) = k

ObjectFields ==
    {"cid", "name", "size_bytes", "mime_type", "pinned", "uploaded_at",
     "local_path"}

(* C13: export of a list of ids yields a bundle with version 1 whose
   objects are the current index records of the listed ids that exist, in
   list order, each with all seven fields; ids without a record are left
   out; neither the index nor the store changes. *)
C13_ExportBundle ==
    last.op = "export_car" =>
        LET cids == last.rows
            objects == last.ret.objects
        IN  /\ last.ok
            /\ last.ret.version = 1
            /\ Len(objects) = Cardinality(FoundAt(cids, index))
            /\ \A k \in 1..Len(objects) :
                   /\ DOMAIN objects[k] = ObjectFields
                   /\ objects[k] \in Get(index, cids[KthFound(cids, index, k)])
            /\ index = pre.index
            /\ store = pre.store

(* an export of an unknown id followed by the id of a stored record *)
C13_Witness ==
    /\ last.op = "export_car"
    /\ Len(last.rows) = 2
    /\ Get(index, last.rows[1]) = {}
    /\ Get(index, last.rows[2]) # {}
    /\ Len(last.ret.objects) = 1

(* C14: stat(id) returns no value exactly when the index has no record
   for id, also after gc reclaimed that record; otherwise it returns the
   size, media type, pin state and upload time the record holds; stat
   changes no state. *)
C14_StatNotFound ==
    last.op = "stat" =>
        /\ (last.ret = {}) <=> (Get(index, last.cid) = {})
        /\ \A summary \in last.ret :
               \E r \in Get(index, last.cid) :
                   /\ summary.size_bytes = r.size_bytes
                   /\ summary.mime_type = r.mime_type
                   /\ summary.pinned = r.pinned
                   /\ summary.uploaded_at = r.uploaded_at
        /\ Cardinality(last.ret) <= 1
        /\ index = pre.index
        /\ store = pre.store

(* a stat of an id whose record a gc reclaimed, while another record is
   still in the index *)
C14_Witness ==
    /\ last.op = "stat"
    /\ last.cid \in last.reclaimed
    /\ last.ret = {}
    /\ index # {}

(* C15: an interrupted gc sweep leaves no blob whose index record the
   sweep deleted: no blob of the store is without an index record, and the
   records of the interrupted sweep are all still in the index, at worst
   pointing at a missing blob. *)
C15_CrashLeavesNoOrphanBlob ==
    /\ \A p \in DOMAIN store : \E r \in index : r.local_path = p
    /\ last.op = "gc_crash" =>
           /\ index = pre.index
           /\ \A p \in DOMAIN store : store[p] = pre.store[p]

(* a gc killed after it unlinked a blob: the record is still in the index
   and points at a missing blob *)
C15_Witness ==
    /\ last.op = "gc_crash"
    /\ \E r \in index :
           /\ r.local_path \in DOMAIN pre.store
           /\ r.local_path \notin DOMAIN store

(* C16 as stated: a pin that commits after gc selected its rows and before
   gc processes the id protects it: gc never unlinks the blob of a record
   that is pinned in the index at that moment. *)
C16_PinBeforeProcessingProtects == gcp.hitPinned = {}

(* C16 amended: gc removes the blob and the record only of ids that were
   unpinned and older than the cutoff when gc selected its rows; a pin that
   commits before the selection protects the record, a pin that commits
   after it does not. *)
C16_GcRemovesOnlySelected ==
    /\ gcp.touched \subseteq gcp.eligible
    /\ gcp.work \subseteq gcp.eligible
    /\ gcp.removed \subseteq gcp.eligible

(* a pin returned true during a sweep, and the sweep went on to remove the
   blob and the record of the pinned id *)
C16_Witness ==
    /\ gcp.pc = "done"
    /\ pinp.pc = "done" /\ pinp.ret /\ pinp.flag /\ pinp.hit
    /\ pinp.cid \in gcp.hitPinned
    /\ pinp.cid \in gcp.removed
    /\ Get(index, pinp.cid) = {}

(* C17: a blob that an index record refers to is never seen truncated: a
   re-add of content whose blob exists does not rewrite the blob. *)
C17_BlobNeverTruncated ==
    \A r \in index :
        r.local_path \in DOMAIN store =>
            Len(store[r.local_path]) = r.size_bytes

(* C18: once a gc sweep and an add that re-adds content the sweep selected
   have both completed, the record and the blob of that content either both
   exist or are both absent, and a record whose uploaded_at is not older
   than the cutoff of the sweep has not been removed. *)
C18_GcAndReAddConsistent ==
    (/\ gcp.pc = "done"
     /\ addp.pc = "done" /\ addp.ok
     /\ \E i \in 1..Len(gcp.rows) : gcp.rows[i][1] = addp.cid) =>
        /\ (Get(index, addp.cid) # {}) <=> (LocalPath(addp.cid) \in DOMAIN store)
        /\ \A obj \in addp.obj :
               ~TextLess(obj.uploaded_at, gcp.cutoff) =>
                   Get(index, addp.cid) # {}

(* C19: when pin or unpin returns true, its UPDATE set the flag of a record
   that was in the index when the UPDATE committed. *)
C19_PinTrueMeansRecordUpdated ==
    (pinp.pc = "done" /\ pinp.ok /\ pinp.ret) => pinp.hit

(* C20: while no add is writing, the blob of every index record has the
   digest given by the record's id and the length given by its
   size_bytes. *)
C20_BlobMatchesId ==
    addp.pc \in {"idle", "done"} =>
        \A r \in index :
            r.local_path \in DOMAIN store =>
                /\ ComputeCid(store[r.local_path]) = r.cid
                /\ Len(store[r.local_path]) = r.size_bytes

====
